---- MODULE Spec2Model ----
(***************************************************************************)
(* Model of myproject/apps/core/models.py and myproject/apps/ideas/        *)
(* models.py: the generic-relation class factory, the meta-tag mixin, the  *)
(* URL mixin, the creation/modification timestamp mixin and the two        *)
(* concrete models Idea and Like.                                          *)
(*                                                                         *)
(* Python strings are sequences of one-character strings.  A call result   *)
(* is a record [kind, val]: kind "value" with the returned string, kind    *)
(* "raise" with the exception's name, kind "none" while nothing returned.  *)
(*                                                                         *)
(* Each class and function is modelled by the run-time meaning of its own   *)
(* statements, and depends on another one only through the values it       *)
(* takes from it: Like is built on two results of the factory, so it       *)
(* exists only if both calls return; UrlBase, MetaTagsBase, the timestamp  *)
(* mixin and Idea take nothing from the factory.                           *)
(* core/models.py line 66 is a `return` inside a class body, which the     *)
(* Python compiler rejects for the file as a whole; the statements before  *)
(* it already raise on every path (see the factory section), so line 66    *)
(* is never reached in the model either.                                   *)
(***************************************************************************)
EXTENDS Integers, Sequences, FiniteSets, TLC

VARIABLES
    \* ---- UrlBase ------------------------------------------------------
    cls,         \* the class of the entity: which methods it has
    websiteUrl,  \* settings.WEBSITE_URL
    p,           \* the path the entity's own get_url_path / get_url is built on
    called,      \* the method called from outside, "none" before any call
    stack,       \* the Python call stack, innermost frame last
    ret,         \* the value or exception handed from a callee to its caller
    \* ---- MetaTagsBase -------------------------------------------------
    metaObj,     \* the four meta_* attributes of one instance
    metaCall,    \* the last renderer called
    metaRet,     \* its result
    \* ---- object_relation_base_factory, Like ---------------------------
    fargs,       \* the arguments of the factory call in progress
    fpc,         \* the statement the factory call is at
    fenv,        \* the local names of the factory function
    fns,         \* the namespace of the class body of TheClass
    fret,        \* the result of the factory call
    importer,    \* how far the import of ideas/models.py got
    likes,       \* the stored Like records
    likeRet,     \* the result of the last attempt to write a Like
    \* ---- CreationModificationDateBase, Idea ---------------------------
    now,         \* the clock read by timezone.now()
    idea,        \* one Idea instance
    saves        \* history: how many times it was saved

urlVars  == <<cls, websiteUrl, p, called, stack, ret>>
metaVars == <<metaObj, metaCall, metaRet>>
factVars == <<fargs, fpc, fenv, fns, fret, importer, likes, likeRet>>
timeVars == <<now, idea, saves>>
vars     == <<urlVars, metaVars, factVars, timeVars>>

\* each area's steps leave the other areas alone
OnlyUrl  == UNCHANGED <<metaVars, factVars, timeVars>>
OnlyMeta == UNCHANGED <<urlVars, factVars, timeVars>>
OnlyFact == UNCHANGED <<urlVars, metaVars, timeVars>>
OnlyTime == UNCHANGED <<urlVars, metaVars, factVars>>

(***************************************************************************)
(* Bounds                                                                  *)
(***************************************************************************)
MaxPathLen == 3
MaxDepth == 6
MaxTime == 4
MaxSaves == 3

(***************************************************************************)
(* Strings and call results                                                *)
(***************************************************************************)
Min(a, b) == IF a <= b THEN a ELSE b

Take(s, n) == SubSeq(s, 1, Min(n, Len(s)))

Drop(s, n) == SubSeq(s, n + 1, Len(s))

\* str.find(c, i): the least 1-based index >= i holding c, 0 when there is none
IndexFrom(s, c, i) ==
    IF \E k \in i..Len(s) : s[k] = c
    THEN CHOOSE k \in i..Len(s) : s[k] = c /\ \A j \in i..(k - 1) : s[j] # c
    ELSE 0

IndexOf(s, c) == IndexFrom(s, c, 1)

\* str.rfind(c)
LastIndexOf(s, c) ==
    IF \E k \in 1..Len(s) : s[k] = c
    THEN CHOOSE k \in 1..Len(s) : s[k] = c /\ \A j \in (k + 1)..Len(s) : s[j] # c
    ELSE 0

Strs(chars, n) == UNION {[1..k -> chars] : k \in 0..n}

NoResult == [kind |-> "none", val |-> <<>>]

Value(v) == [kind |-> "value", val |-> v]

Raise(e) == [kind |-> "raise", val |-> <<e>>]

(***************************************************************************)
(* urllib.parse, as UrlBase.get_url_path uses it (core/models.py 148-149)  *)
(***************************************************************************)
Letters == {"a", "h", "t", "p"}

SchemeChars == Letters \cup {"+", "-", "."}

Http == <<"h", "t", "t", "p">>

\* the schemes urllib lists in uses_params and in uses_netloc
UsesParams == {<<>>, Http}

UsesNetloc == {<<>>, Http}

\* s.split(c, 1) when c is in s: the text before and after the first c;
\* otherwise the whole of s and nothing
Partition(s, c) ==
    LET i == IndexOf(s, c)
    IN  IF i > 0 THEN [head |-> Take(s, i - 1), tail |-> Drop(s, i)]
        ELSE [head |-> s, tail |-> <<>>]

\* urlsplit, the scheme: the text before the first ":" when it is a letter
\* followed by scheme characters
SplitScheme(url) ==
    LET i == IndexOf(url, ":")
    IN  IF /\ i > 1
           /\ url[1] \in Letters
           /\ \A k \in 1..(i - 1) : url[k] \in SchemeChars
        THEN [scheme |-> Take(url, i - 1), rest |-> Drop(url, i)]
        ELSE [scheme |-> <<>>, rest |-> url]

\* urlsplit, the netloc (_splitnetloc): after a leading "//", up to the first
\* of "/", "?" and "#"
SplitNetloc(url) ==
    LET ends  == {IndexFrom(url, c, 3) : c \in {"/", "?", "#"}} \ {0}
        delim == IF ends = {} THEN Len(url) + 1
                 ELSE CHOOSE e \in ends : \A o \in ends : e <= o
    IN  IF Take(url, 2) = <<"/", "/">>
        THEN [netloc |-> SubSeq(url, 3, delim - 1), rest |-> SubSeq(url, delim, Len(url))]
        ELSE [netloc |-> <<>>, rest |-> url]

\* urlsplit: scheme, netloc, then the fragment after the first "#" and the
\* query after the first "?"
urlsplit(url) ==
    LET a == SplitScheme(url)
        b == SplitNetloc(a.rest)
        c == Partition(b.rest, "#")
        d == Partition(c.head, "?")
    IN  [scheme |-> a.scheme, netloc |-> b.netloc, path |-> d.head,
         query |-> d.tail, fragment |-> c.tail]

\* _splitparams: the parameters follow the first ";" of the last path segment
splitparams(url) ==
    LET i == IF IndexOf(url, "/") > 0
             THEN IndexFrom(url, ";", LastIndexOf(url, "/"))
             ELSE IndexOf(url, ";")
    IN  IF i = 0 THEN [path |-> url, params |-> <<>>]
        ELSE [path |-> Take(url, i - 1), params |-> Drop(url, i)]

urlparse(url) ==
    LET s  == urlsplit(url)
        sp == IF s.scheme \in UsesParams /\ IndexOf(s.path, ";") > 0
              THEN splitparams(s.path)
              ELSE [path |-> s.path, params |-> <<>>]
    IN  [scheme |-> s.scheme, netloc |-> s.netloc, path |-> sp.path,
         params |-> sp.params, query |-> s.query, fragment |-> s.fragment]

urlunsplit(scheme, netloc, url, query, fragment) ==
    LET u1 == IF \/ netloc # <<>>
                 \/ (scheme # <<>> /\ scheme \in UsesNetloc /\ Take(url, 2) # <<"/", "/">>)
              THEN <<"/", "/">> \o netloc
                     \o (IF url # <<>> /\ url[1] # "/" THEN <<"/">> \o url ELSE url)
              ELSE url
        u2 == IF scheme # <<>> THEN scheme \o <<":">> \o u1 ELSE u1
        u3 == IF query # <<>> THEN u2 \o <<"?">> \o query ELSE u2
    IN  IF fragment # <<>> THEN u3 \o <<"#">> \o fragment ELSE u3

urlunparse(scheme, netloc, url, params, query, fragment) ==
    urlunsplit(scheme, netloc,
               IF params # <<>> THEN url \o <<";">> \o params ELSE url,
               query, fragment)

\* the mutant keeps the host: urlunparse(("",) + bits[1:])
StripSchemeAndHostKeepingHost(url) ==
    LET bits == urlparse(url)
    IN  urlunparse(<<>>, bits.netloc, bits.path, bits.params, bits.query, bits.fragment)

\* core/models.py 148-149: urlunparse(("", "") + bits[2:])
StripSchemeAndHost(url) ==
    LET bits == urlparse(url)
    IN  urlunparse(<<>>, <<>>, bits.path, bits.params, bits.query, bits.fragment)

\* the mutant puts the path first
PrependSiteSwapped(site, path) == path \o site

\* core/models.py 135: settings.WEBSITE_URL + path
PrependSite(site, path) == site \o path

(***************************************************************************)
(* UrlBase (core/models.py 115-154) and the classes that use it            *)
(***************************************************************************)
\* a class is the set of facts method lookup depends on
EntityClasses == [urlBase : BOOLEAN, ovPath : BOOLEAN, ovUrl : BOOLEAN]

\* ideas/models.py 34-46: Idea(CreationModificationDateBase) with get_url_path
Idea == [urlBase |-> FALSE, ovPath |-> TRUE, ovUrl |-> FALSE]

PathChars == {"/", "a", ";", "?", "#"}

Paths == Strs(PathChars, MaxPathLen)

SiteNoPath == Http \o <<":", "/", "/", "a">>

\* settings.WEBSITE_URL: host only, with a trailing slash, under a sub-path
SiteUrls == {SiteNoPath,
             Http \o <<":", "/", "/", "a", "/">>,
             Http \o <<":", "/", "/", "a", "/", "a">>}

Methods == {"get_absolute_url", "get_url", "get_url_path"}

\* attribute lookup on the instance: the class's own method, else the mixin's,
\* else no such attribute
Resolve(c, m) ==
    CASE m = "get_url"          -> IF c.ovUrl THEN "override"
                                   ELSE IF c.urlBase THEN "mixin" ELSE "missing"
      [] m = "get_url_path"     -> IF c.ovPath THEN "override"
                                   ELSE IF c.urlBase THEN "mixin" ELSE "missing"
      [] m = "get_absolute_url" -> IF c.urlBase THEN "mixin" ELSE "missing"

\* the mutant: the marks of lines 137 and 151 are never found
HasDontRecurseUnmarked(c, m) == FALSE

\* hasattr(self.<m>, "dont_recurse"): lines 137 and 151 mark the two mixin
\* functions, and a bound method shows the attributes of its function
HasDontRecurse(c, m) == Resolve(c, m) = "mixin"

Frame(c, m) == [fn |-> m, impl |-> Resolve(c, m), pc |-> "enter"]

Top == stack[Len(stack)]

Pop == Take(stack, Len(stack) - 1)

\* the top frame calls method m and waits for it
Push(m) == Append([stack EXCEPT ![Len(stack)].pc = "wait"], Frame(cls, m))

OnTop(m, impl) == stack # <<>> /\ Top.fn = m /\ Top.impl = impl

\* a call from outside
Call(m) ==
    /\ stack = <<>>
    /\ called' = m
    /\ stack' = <<Frame(cls, m)>>
    /\ ret' = NoResult
    /\ UNCHANGED <<cls, websiteUrl, p>>
    /\ OnlyUrl

\* the body of a mixin method that guards on the other method m, calls it and
\* maps its result with f; any exception of the callee goes on to the caller
\* (the `except NotImplementedError: raise` of lines 130-133 and 143-146)
GuardedBody(m, mapped) ==
    IF Top.pc = "enter"
    THEN IF HasDontRecurse(cls, m)
         THEN stack' = Pop /\ ret' = Raise("NotImplementedError")
         ELSE IF Len(stack) >= MaxDepth
              THEN stack' = Pop /\ ret' = Raise("RecursionError")
              ELSE stack' = Push(m) /\ ret' = NoResult
    ELSE /\ stack' = Pop
         /\ ret' = IF ret.kind = "raise" THEN ret ELSE Value(mapped)

\* core/models.py 126-135
get_url ==
    /\ OnTop("get_url", "mixin")
    /\ GuardedBody("get_url_path", PrependSite(websiteUrl, ret.val))
    /\ UNCHANGED <<cls, websiteUrl, p, called>>
    /\ OnlyUrl

\* core/models.py 139-149
get_url_path ==
    /\ OnTop("get_url_path", "mixin")
    /\ GuardedBody("get_url", StripSchemeAndHost(ret.val))
    /\ UNCHANGED <<cls, websiteUrl, p, called>>
    /\ OnlyUrl

\* core/models.py 153-154
get_absolute_url ==
    /\ OnTop("get_absolute_url", "mixin")
    /\ IF Top.pc = "enter"
       THEN stack' = Push("get_url") /\ ret' = NoResult
       ELSE stack' = Pop /\ ret' = ret
    /\ UNCHANGED <<cls, websiteUrl, p, called>>
    /\ OnlyUrl

\* a get_url_path the class defines itself, as Idea does (ideas/models.py
\* 45-46): it returns the path of the entity
OwnGetUrlPath ==
    /\ OnTop("get_url_path", "override")
    /\ stack' = Pop
    /\ ret' = Value(p)
    /\ UNCHANGED <<cls, websiteUrl, p, called>>
    /\ OnlyUrl

\* a get_url the class defines itself: the site's URL followed by the path
OwnGetUrl ==
    /\ OnTop("get_url", "override")
    /\ stack' = Pop
    /\ ret' = Value(websiteUrl \o p)
    /\ UNCHANGED <<cls, websiteUrl, p, called>>
    /\ OnlyUrl

\* the class has no such method
NoSuchMethod ==
    /\ stack # <<>> /\ Top.impl = "missing"
    /\ stack' = Pop
    /\ ret' = Raise("AttributeError")
    /\ UNCHANGED <<cls, websiteUrl, p, called>>
    /\ OnlyUrl

UrlDone == called # "none" /\ stack = <<>>

UrlNext ==
    \/ \E m \in Methods : Call(m)
    \/ get_url
    \/ get_url_path
    \/ get_absolute_url
    \/ OwnGetUrlPath
    \/ OwnGetUrl
    \/ NoSuchMethod

(***************************************************************************)
(* MetaTagsBase (core/models.py 69-112)                                    *)
(***************************************************************************)
MetaFields == {"meta_keywords", "meta_description", "meta_author", "meta_copyright"}

\* the values an attribute takes here: blank, "a,b", and text with markup
MetaValues == {<<>>, <<"a", ",", "b">>, <<"<", "b">>}

RECURSIVE Join(_, _)
\* sep.join(parts)
Join(parts, sep) ==
    IF parts = <<>> THEN <<>>
    ELSE IF Len(parts) = 1 THEN parts[1]
    ELSE parts[1] \o sep \o Join(Tail(parts), sep)

RECURSIVE Escape(_)
\* the template engine's escaping of a value
Escape(s) ==
    IF s = <<>> THEN <<>>
    ELSE (CASE s[1] = "<" -> <<"&lt;">>
            [] s[1] = ">" -> <<"&gt;">>
            [] s[1] = "&" -> <<"&amp;">>
            [] OTHER      -> <<s[1]>>) \o Escape(Tail(s))

\* the template core/includes/meta_field.html: a key/value fragment with the
\* content escaped
render_meta_field(name, content) ==
    <<"<meta name=\"">> \o name \o <<"\" content=\"">> \o Escape(content) \o <<"\" />">>

\* core/models.py 83-92
get_meta_field(name, content) ==
    Value(IF name # <<>> /\ content # <<>> THEN render_meta_field(name, content) ELSE <<>>)

\* core/models.py 94-95
get_meta_keywords(obj) == get_meta_field(<<"keywords">>, obj.meta_keywords)

\* core/models.py 97-98
get_meta_description(obj) == get_meta_field(<<"description">>, obj.meta_description)

\* core/models.py 100-101
get_meta_author(obj) == get_meta_field(<<"author">>, obj.meta_author)

\* core/models.py 103-104
get_meta_copyright(obj) == get_meta_field(<<"copyright">>, obj.meta_copyright)

\* core/models.py 110: self.meta_author() calls the value of the attribute,
\* a str, and a str is not callable
CallStr(v) == Raise("TypeError")

\* core/models.py 106-112: the four items of the tuple are evaluated in order
\* and the first exception ends the call
get_meta_tafs(obj) ==
    LET parts == <<get_meta_keywords(obj), get_meta_description(obj),
                   CallStr(obj.meta_author), get_meta_copyright(obj)>>
        failed == {i \in 1..4 : parts[i].kind = "raise"}
    IN  IF failed # {}
        THEN parts[CHOOSE i \in failed : \A j \in failed : i <= j]
        ELSE Value(Join([i \in 1..4 |-> parts[i].val], <<"\n">>))

\* a new instance: every CharField(blank=True) starts as the empty string
NewMetaObj == [f \in MetaFields |-> <<>>]

\* obj.<f> = v
SetMeta(f, v) ==
    /\ metaObj' = [metaObj EXCEPT ![f] = v]
    /\ metaCall' = "none"
    /\ metaRet' = NoResult
    /\ OnlyMeta

CallGetMetaKeywords ==
    /\ metaCall' = "get_meta_keywords"
    /\ metaRet' = get_meta_keywords(metaObj)
    /\ UNCHANGED metaObj
    /\ OnlyMeta

CallGetMetaDescription ==
    /\ metaCall' = "get_meta_description"
    /\ metaRet' = get_meta_description(metaObj)
    /\ UNCHANGED metaObj
    /\ OnlyMeta

CallGetMetaAuthor ==
    /\ metaCall' = "get_meta_author"
    /\ metaRet' = get_meta_author(metaObj)
    /\ UNCHANGED metaObj
    /\ OnlyMeta

CallGetMetaCopyright ==
    /\ metaCall' = "get_meta_copyright"
    /\ metaRet' = get_meta_copyright(metaObj)
    /\ UNCHANGED metaObj
    /\ OnlyMeta

CallGetMetaTafs ==
    /\ metaCall' = "get_meta_tafs"
    /\ metaRet' = get_meta_tafs(metaObj)
    /\ UNCHANGED metaObj
    /\ OnlyMeta

MetaNext ==
    \/ \E f \in MetaFields, v \in MetaValues : SetMeta(f, v)
    \/ CallGetMetaKeywords
    \/ CallGetMetaDescription
    \/ CallGetMetaAuthor
    \/ CallGetMetaCopyright
    \/ CallGetMetaTafs

(***************************************************************************)
(* CreationModificationDateBase (core/models.py 157-168) and Idea          *)
(***************************************************************************)
\* core/models.py 164: created = DateTimeField(auto_now_add=True)
CreatedField == [auto_now_add |-> TRUE, auto_now |-> FALSE]

\* the mutant: modified declared like created
ModifiedFieldAddOnly == [auto_now_add |-> TRUE, auto_now |-> FALSE]

\* core/models.py 165: modified = DateTimeField(auto_now=True)
ModifiedField == [auto_now_add |-> FALSE, auto_now |-> TRUE]

\* DateTimeField.pre_save: the clock's reading when the field is auto_now, or
\* auto_now_add on the insert; otherwise the value the instance holds
pre_save(field, add, current, clock) ==
    IF field.auto_now \/ (field.auto_now_add /\ add) THEN clock ELSE current

Titles == {"t1", "t2"}

\* an Idea not saved yet: no primary key, no timestamps
NewIdea == [pk |-> 0, title |-> "t1", created |-> -1, modified |-> -1]

\* time passes
Tick ==
    /\ now < MaxTime
    /\ now' = now + 1
    /\ UNCHANGED <<idea, saves>>
    /\ OnlyTime

\* idea.title = t
EditTitle(t) ==
    /\ t # idea.title
    /\ idea' = [idea EXCEPT !.title = t]
    /\ UNCHANGED <<now, saves>>
    /\ OnlyTime

\* idea.save(): an insert while the instance has no primary key, an update
\* afterwards.  Every field is pre-saved in the order of its declaration and
\* written; each auto field reads the clock for itself, and the clock may
\* have moved on between the two readings.
Save ==
    /\ saves < MaxSaves
    /\ \E d \in {0, 1} :
          /\ now + d <= MaxTime
          /\ now' = now + d
    /\ LET add == idea.pk = 0
       IN  idea' = [idea EXCEPT
                      !.pk = 1,
                      !.created = pre_save(CreatedField, add, idea.created, now),
                      !.modified = pre_save(ModifiedField, add, idea.modified, now')]
    /\ saves' = saves + 1
    /\ OnlyTime

TimeNext ==
    \/ Tick
    \/ \E t \in Titles : EditTitle(t)
    \/ Save

(***************************************************************************)
(* object_relation_base_factory (core/models.py 12-66)                     *)
(***************************************************************************)
\* Python's None among strings, and a name that has no value yet
None == "<None>"

Unbound == "<unbound>"

Falsy(x) == x = None \/ x = ""

\* str(x), as an f-string formats it
Str(x) == IF x = None THEN "None" ELSE x

\* limit_content_type_choices_to: None, or a dict that may hold "model__in"
NoLimit == [given |-> FALSE, restricts |-> FALSE, models |-> {}]

EmptyLimit == [given |-> TRUE, restricts |-> FALSE, models |-> {}]

\* ideas/models.py 17-19
OwnerLimit == [given |-> TRUE, restricts |-> TRUE, models |-> {"user", "group"}]

FactoryArgs ==
    [prefix : {None, "", "owner", "target"},
     prefix_verbose : {None, "Owner"},
     add_related_name : BOOLEAN,
     limit_content_type_choices_to : {NoLimit, EmptyLimit, OwnerLimit},
     is_required : BOOLEAN]

\* the defaults of the signature, lines 12-13
DefaultArgs ==
    [prefix |-> None, prefix_verbose |-> None, add_related_name |-> FALSE,
     limit_content_type_choices_to |-> NoLimit, is_required |-> FALSE]

\* ideas/models.py 9
FavoriteObjectBaseArgs == [DefaultArgs EXCEPT !.is_required = TRUE]

\* ideas/models.py 12-20
OwnerBaseArgs ==
    [prefix |-> "owner", prefix_verbose |-> "Owner", add_related_name |-> TRUE,
     limit_content_type_choices_to |-> OwnerLimit, is_required |-> TRUE]

NoField == [type |-> "none"]

\* the locals of a call that has just begun: the parameters are bound, the
\* field names and TheClass are not
EnvOf(args) ==
    [p |-> Unbound,
     prefix_verbose |-> args.prefix_verbose,
     limit_content_type_choices_to |-> args.limit_content_type_choices_to,
     content_type_field |-> Unbound,
     object_id_field |-> Unbound,
     content_object_field |-> Unbound,
     TheClass |-> Unbound]

EmptyNamespace ==
    [related_name |-> Unbound, optional |-> FALSE, ct_verbose_name |-> Unbound,
     content_type |-> NoField, fk_verbose_name |-> Unbound, object_id |-> NoField,
     content_object |-> NoField]

NoClass == [kind |-> "none", exc |-> "", fields |-> <<>>]

Raised(e) == [kind |-> "raise", exc |-> e, fields |-> <<>>]

NotImporting == [at |-> "none", exc |-> ""]

\* entering the function with the given arguments
Enter(args) ==
    /\ fargs' = args
    /\ fpc' = "prologue"
    /\ fenv' = EnvOf(args)
    /\ fns' = EmptyNamespace
    /\ fret' = NoClass

\* an exception leaves the class body and the function
Throw(e) ==
    /\ fpc' = "idle"
    /\ fret' = Raised(e)

\* a call of the factory from outside any import
FactoryCall(args) ==
    /\ fpc = "idle"
    /\ importer.at \notin {"L9", "L12"}
    /\ Enter(args)
    /\ UNCHANGED <<importer, likes, likeRet>>
    /\ OnlyFact

\* lines 31-38: everything but p = "" is inside `if prefix:`
PrologueEnv(args, env) ==
    IF ~Falsy(args.prefix)
    THEN LET pp == args.prefix \o "_"
         IN  [env EXCEPT
                !.p = pp,
                !.prefix_verbose =
                    IF Falsy(env.prefix_verbose) THEN "Related object"
                    ELSE env.prefix_verbose,
                !.limit_content_type_choices_to =
                    IF env.limit_content_type_choices_to.restricts
                    THEN env.limit_content_type_choices_to ELSE EmptyLimit,
                !.content_type_field = pp \o "content_type",
                !.object_id_field = pp \o "object_id",
                !.content_object_field = pp \o "content_object"]
    ELSE [env EXCEPT !.p = ""]

Prologue ==
    /\ fpc = "prologue"
    /\ fenv' = PrologueEnv(fargs, fenv)
    /\ fpc' = "related_name"
    /\ UNCHANGED <<fargs, fns, fret, importer, likes, likeRet>>
    /\ OnlyFact

\* lines 44-49, the first statement of the class body
ClassRelatedName ==
    /\ fpc = "related_name"
    /\ IF fargs.add_related_name /\ Falsy(fargs.prefix)
       THEN Throw("FieldError") /\ UNCHANGED fns
       ELSE /\ fns' = [fns EXCEPT !.related_name =
                          IF fargs.add_related_name THEN fargs.prefix ELSE None]
            /\ fpc' = "fields"
            /\ UNCHANGED fret
    /\ UNCHANGED <<fargs, fenv, importer, likes, likeRet>>
    /\ OnlyFact

\* lines 51-60: optional, the two verbose names, the ForeignKey and the
\* CharField
ClassFields ==
    /\ fpc = "fields"
    /\ LET optional == ~fargs.is_required
           ctv      == Str(fenv.prefix_verbose) \o "'s type (model)"
       IN  fns' = [fns EXCEPT
                     !.optional = optional,
                     !.ct_verbose_name = ctv,
                     !.content_type =
                         [type |-> "ForeignKey", to |-> "ContentType",
                          verbose_name |-> ctv,
                          related_name |-> fns.related_name,
                          blank |-> optional, null |-> optional,
                          limit_choices_to |-> fenv.limit_content_type_choices_to,
                          persisted |-> TRUE],
                     !.fk_verbose_name = fenv.prefix_verbose,
                     !.object_id =
                         [type |-> "CharField", verbose_name |-> fenv.prefix_verbose,
                          blank |-> optional, null |-> FALSE, max_length |-> 255,
                          default |-> "", persisted |-> TRUE]]
    /\ fpc' = "gfk"
    /\ UNCHANGED <<fargs, fenv, fret, importer, likes, likeRet>>
    /\ OnlyFact

\* line 61: the two field names are read from the enclosing function
ClassGenericForeignKey ==
    /\ fpc = "gfk"
    /\ IF fenv.content_type_field = Unbound \/ fenv.object_id_field = Unbound
       THEN Throw("NameError") /\ UNCHANGED fns
       ELSE /\ fns' = [fns EXCEPT !.content_object =
                          [type |-> "GenericForeignKey",
                           ct_field |-> fenv.content_type_field,
                           fk_field |-> fenv.object_id_field,
                           persisted |-> FALSE]]
            /\ fpc' = "add_to_class"
            /\ UNCHANGED fret
    /\ UNCHANGED <<fargs, fenv, importer, likes, likeRet>>
    /\ OnlyFact

\* the fragment the three add_to_class calls and the return would produce
Fragment(env, ns) ==
    [kind |-> "class", exc |-> "",
     fields |-> <<[name |-> env.content_type_field, field |-> ns.content_type],
                  [name |-> env.object_id_field, field |-> ns.object_id],
                  [name |-> env.content_object_field, field |-> ns.content_object]>>]

\* lines 62-66, still inside the class body: TheClass is a name of the
\* enclosing function that the class statement binds only when the body has
\* ended, so reading it here finds no value
ClassAddToClass ==
    /\ fpc = "add_to_class"
    /\ IF fenv.TheClass = Unbound
       THEN Throw("NameError")
       ELSE fpc' = "idle" /\ fret' = Fragment(fenv, fns)
    /\ UNCHANGED <<fargs, fenv, fns, importer, likes, likeRet>>
    /\ OnlyFact

\* ideas/models.py 9, 12 and 23, in order: the two calls of the factory, then
\* the class Like built on both results; an exception in a call ends the
\* import
ImportIdeas ==
    /\ fpc = "idle"
    /\ importer.at # "loaded"
    /\ CASE importer.at \in {"none", "failed"} ->
              Enter(FavoriteObjectBaseArgs) /\ importer' = [at |-> "L9", exc |-> ""]
         [] importer.at = "L9" ->
              IF fret.kind = "raise"
              THEN /\ importer' = [at |-> "failed", exc |-> fret.exc]
                   /\ UNCHANGED <<fargs, fpc, fenv, fns, fret>>
              ELSE Enter(OwnerBaseArgs) /\ importer' = [at |-> "L12", exc |-> ""]
         [] importer.at = "L12" ->
              /\ importer' = IF fret.kind = "raise"
                             THEN [at |-> "failed", exc |-> fret.exc]
                             ELSE [at |-> "loaded", exc |-> ""]
              /\ UNCHANGED <<fargs, fpc, fenv, fns, fret>>
    /\ UNCHANGED <<likes, likeRet>>
    /\ OnlyFact

OwnerModels == {"user", "group", "idea"}

\* from myproject.apps.ideas.models import Like, then
\* Like(owner_content_type=<the type named owner>, ...).save(): without the
\* module there is no class to build a record of, and the import's exception
\* is what the writer gets; with it, save() writes the record
WriteLike(owner) ==
    /\ fpc = "idle"
    /\ importer.at \in {"failed", "loaded"}
    /\ IF importer.at = "failed"
       THEN /\ likeRet' = [kind |-> "raise", val |-> <<importer.exc>>, owner |-> owner]
            /\ likes' = likes
       ELSE /\ likeRet' = [kind |-> "value", val |-> <<"saved">>, owner |-> owner]
            /\ likes' = likes \cup {[owner |-> owner]}
    /\ UNCHANGED <<fargs, fpc, fenv, fns, fret, importer>>
    /\ OnlyFact

FactNext ==
    \/ \E args \in FactoryArgs : FactoryCall(args)
    \/ Prologue
    \/ ClassRelatedName
    \/ ClassFields
    \/ ClassGenericForeignKey
    \/ ClassAddToClass
    \/ ImportIdeas
    \/ \E owner \in OwnerModels : WriteLike(owner)

(***************************************************************************)
(* Specifications: one per part of the program.  Each starts the part it   *)
(* runs from every input of that part and holds the other parts at rest.   *)
(***************************************************************************)
\* an entity of any class, under any of the site URLs, with any path
InitUrl ==
    /\ cls \in EntityClasses
    /\ websiteUrl \in SiteUrls
    /\ p \in Paths
    /\ called = "none" /\ stack = <<>> /\ ret = NoResult
    /\ metaObj = NewMetaObj /\ metaCall = "none" /\ metaRet = NoResult
    /\ fargs = DefaultArgs /\ fpc = "idle" /\ fenv = EnvOf(DefaultArgs)
    /\ fns = EmptyNamespace /\ fret = NoClass /\ importer = NotImporting
    /\ likes = {} /\ likeRet = NoResult
    /\ now = 0 /\ idea = NewIdea /\ saves = 0

InitRest ==
    /\ cls = Idea /\ websiteUrl = SiteNoPath /\ p = <<>>
    /\ called = "none" /\ stack = <<>> /\ ret = NoResult
    /\ metaObj = NewMetaObj /\ metaCall = "none" /\ metaRet = NoResult
    /\ fargs = DefaultArgs /\ fpc = "idle" /\ fenv = EnvOf(DefaultArgs)
    /\ fns = EmptyNamespace /\ fret = NoClass /\ importer = NotImporting
    /\ likes = {} /\ likeRet = NoResult
    /\ now = 0 /\ idea = NewIdea /\ saves = 0

SpecUrl  == InitUrl /\ [][UrlNext]_vars

SpecMeta == InitRest /\ [][MetaNext]_vars

SpecFact == InitRest /\ [][FactNext]_vars

SpecTime == InitRest /\ [][TimeNext]_vars

(***************************************************************************)
(* Properties of UrlBase, under SpecUrl                                    *)
(***************************************************************************)
Neither(c)  == c.urlBase /\ ~c.ovPath /\ ~c.ovUrl

PathOnly(c) == c.urlBase /\ c.ovPath /\ ~c.ovUrl

UrlOnly(c)  == c.urlBase /\ ~c.ovPath /\ c.ovUrl

\* an absolute path as a URL resolver hands it out: one leading "/", and no
\* parameter, query or fragment mark
IsAbsolutePath(s) ==
    /\ s # <<>>
    /\ s[1] = "/"
    /\ Take(s, 2) # <<"/", "/">>
    /\ \A k \in 1..Len(s) : s[k] \notin {";", "?", "#"}

\* C1: on an entity that uses UrlBase and overrides neither get_url nor
\* get_url_path, a call of get_absolute_url, get_url or get_url_path never
\* nests deeper than get_absolute_url -> get_url, and ends by raising
\* NotImplementedError.
C1_NoBaseCaseRaisesNotImplemented ==
    Neither(cls) =>
        /\ Len(stack) <= 2
        /\ (UrlDone => ret = Raise("NotImplementedError"))

C1_Witness ==
    /\ Neither(cls)
    /\ called = "get_url_path"
    /\ UrlDone
    /\ ret = Raise("NotImplementedError")

\* C2 as stated: on an entity that uses UrlBase and overrides only
\* get_url_path, and on Idea, get_absolute_url() returns WEBSITE_URL followed
\* by the path of get_url_path().
C2_Original ==
    ((PathOnly(cls) \/ cls = Idea) /\ called = "get_absolute_url" /\ UrlDone)
        => ret = Value(websiteUrl \o p)

\* C2, amended: on an entity that uses UrlBase and overrides only
\* get_url_path, get_absolute_url() returns WEBSITE_URL followed by the path
\* of get_url_path(); Idea defines get_url_path but does not use UrlBase, so
\* on an Idea get_url_path() returns the path and get_absolute_url() does not
\* exist.
C2_AbsoluteUrlIsSitePlusPath ==
    /\ (PathOnly(cls) /\ called = "get_absolute_url" /\ UrlDone)
           => ret = Value(websiteUrl \o p)
    /\ (cls = Idea /\ called = "get_url_path" /\ UrlDone) => ret = Value(p)
    /\ (cls = Idea /\ called = "get_absolute_url" /\ UrlDone)
           => ret = Raise("AttributeError")

C2_Witness ==
    /\ PathOnly(cls)
    /\ p = <<"/", "a", "/">>
    /\ called = "get_absolute_url"
    /\ UrlDone
    /\ ret = Value(websiteUrl \o <<"/", "a", "/">>)

AllBlank(obj) == \A f \in MetaFields : obj[f] = <<>>

OnlyKeywords(obj, kw) ==
    /\ obj.meta_keywords = kw
    /\ \A f \in MetaFields \ {"meta_keywords"} : obj[f] = <<>>

RECURSIVE SplitLines(_)
\* text.split("\n")
SplitLines(text) ==
    LET i == IndexOf(text, "\n")
    IN  IF i = 0 THEN <<text>>
        ELSE <<Take(text, i - 1)>> \o SplitLines(Drop(text, i))

Contains(s, sub) ==
    \E i \in 1..(Len(s) - Len(sub) + 1) : SubSeq(s, i, i + Len(sub) - 1) = sub

\* C5: get_meta_tafs() of an instance whose four attributes are blank returns
\* the empty string; with only meta_keywords set to "a,b" it returns a text
\* with exactly one non-empty fragment, which contains "a,b".
C5_AggregateOfBlankAndKeywordsOnly ==
    metaCall = "get_meta_tafs" =>
        /\ AllBlank(metaObj) => metaRet = Value(<<>>)
        /\ OnlyKeywords(metaObj, <<"a", ",", "b">>) =>
              /\ metaRet.kind = "value"
              /\ LET lines == SplitLines(metaRet.val)
                     full  == {i \in 1..Len(lines) : lines[i] # <<>>}
                 IN  /\ Cardinality(full) = 1
                     /\ \A i \in full : Contains(lines[i], <<"a", ",", "b">>)

\* C6: get_meta_tafs() completes without error and returns the results of
\* get_meta_keywords(), get_meta_description(), get_meta_author() and
\* get_meta_copyright(), in this order, joined by newlines.
C6_AggregateJoinsFourRenderers ==
    metaCall = "get_meta_tafs" =>
        metaRet = Value(Join(<<get_meta_keywords(metaObj).val,
                               get_meta_description(metaObj).val,
                               get_meta_author(metaObj).val,
                               get_meta_copyright(metaObj).val>>, <<"\n">>))

(***************************************************************************)
(* Properties of the timestamps, under SpecTime                            *)
(***************************************************************************)
IsSave == saves' = saves + 1

\* C7 as stated: the first save sets created and modified to the time of the
\* save; every later save leaves created as it is and makes modified strictly
\* greater.
C7_Original ==
    [][IsSave =>
          /\ saves = 0 => (idea'.created = now /\ idea'.modified = now')
          /\ saves >= 1 => (idea'.created = idea.created
                            /\ idea'.modified > idea.modified)]_vars

\* C7, amended: the first save sets created and modified to the time of the
\* save; every later save leaves created as it is and sets modified to the
\* time of that save, which is greater than before only when the clock has
\* moved on since the save before (and never smaller while the clock does
\* not go back).
C7_TimestampsFollowSaves ==
    [][IsSave =>
          /\ idea'.modified = now'
          /\ saves = 0 => idea'.created = now
          /\ saves >= 1 => (/\ idea'.created = idea.created
                            /\ idea'.modified >= idea.modified
                            /\ (idea'.modified > idea.modified
                                  <=> now' > idea.modified))]_vars

C7_Witness ==
    /\ saves >= 2
    /\ idea.pk = 1
    /\ idea.created >= 0
    /\ idea.modified > idea.created

(***************************************************************************)
(* Properties of the factory and of Like, under SpecFact                   *)
(***************************************************************************)
Finished == fpc = "idle" /\ fret.kind # "none"

NeedsPrefix(args) == args.add_related_name /\ Falsy(args.prefix)

FieldPrefix(args) == IF Falsy(args.prefix) THEN "" ELSE args.prefix \o "_"

\* C3: a call with add_related_name=True and an empty or absent prefix raises
\* FieldError; with add_related_name=True and a prefix it returns a class
\* whose relation name is the prefix.
C3_RelatedNameNeedsPrefix ==
    (Finished /\ fargs.add_related_name) =>
        IF Falsy(fargs.prefix)
        THEN fret = Raised("FieldError")
        ELSE /\ fret.kind = "class"
             /\ fret.fields[1].field.related_name = fargs.prefix

\* C4: every call that is not refused for a missing prefix returns a fragment
\* of exactly three fields named <prefix>_content_type, <prefix>_object_id
\* and <prefix>_content_object (no prefix, no underscore), so that the two
\* fragments of Like can be mixed into one class.
C4_ThreeNamespacedFields ==
    /\ (Finished /\ ~NeedsPrefix(fargs)) =>
          /\ fret.kind = "class"
          /\ Len(fret.fields) = 3
          /\ fret.fields[1].name = FieldPrefix(fargs) \o "content_type"
          /\ fret.fields[2].name = FieldPrefix(fargs) \o "object_id"
          /\ fret.fields[3].name = FieldPrefix(fargs) \o "content_object"
    /\ importer.at # "failed"

\* C9: in the fragment a call returns, content_type and object_id are optional
\* exactly when is_required is false, and content_object is not persisted.
C9_OptionalityIsNotRequired ==
    (Finished /\ ~NeedsPrefix(fargs)) =>
        /\ fret.kind = "class"
        /\ fret.fields[1].field.blank = ~fargs.is_required
        /\ fret.fields[1].field.null = ~fargs.is_required
        /\ fret.fields[2].field.blank = ~fargs.is_required
        /\ ~fret.fields[3].field.persisted

\* C8: writing a Like whose owner type is user or group stores it; writing one
\* whose owner type is another model is refused with a validation error and
\* stores nothing.
C8_LikeOwnerRestricted ==
    likeRet.kind # "none" =>
        IF likeRet.owner \in OwnerLimit.models
        THEN likeRet.kind = "value" /\ [owner |-> likeRet.owner] \in likes
        ELSE /\ likeRet.kind = "raise"
             /\ likeRet.val = <<"ValidationError">>
             /\ [owner |-> likeRet.owner] \notin likes

====
